---- MODULE Spec2Model ----
(***************************************************************************)
(* Model of src/vs/workbench/contrib/search/browser/searchActions.ts:      *)
(*   - the web-embedding bootstrap create() with the commands / env /      *)
(*     window facades that wait for the workbench (lines 861-978);         *)
(*   - the search-view command handlers and the remove / replace actions   *)
(*     working on the search-result tree (lines 35-843).                   *)
(***************************************************************************)
EXTENDS Integers, Sequences, FiniteSets, TLC

VARIABLES
    \* ---- bootstrap (create and the facades) ----
    created,                \* module flag `created`
    marks,                  \* performance marks recorded by mark()
    commandsRegistry,       \* ids registered with CommandsRegistry, in order
    menuRegistry,           \* items appended to MenuRegistry, in order
    browserMains,           \* number of BrowserMain instances opened
    openState,              \* state of the promise returned by BrowserMain.open()
    instantiatedWorkbench,  \* closure variable of create()
    workbenchPromise,       \* the module's DeferredPromise<IWorkbench>
    waiters,                \* continuations waiting on workbenchPromise.p (FIFO); early: queued
                            \* while the promise was pending
    delivered,              \* facade calls that reached a workbench
    shutdowns,              \* shutdown() calls: the receiver, and whether made from the then-callback
    createCalls,            \* number of create() invocations so far
    createResult,           \* outcome of the latest create() invocation
    apiCalls,               \* number of facade calls so far
    disposeCalls,           \* number of runs of the disposable's callback
    createArgs,             \* options the workbench was created with
    \* ---- search view ----
    nodes,                  \* elements of the search-result tree (the viewer shows them)
    collapsed,              \* collapsed elements of the viewer
    focus,                  \* viewer.getFocus()
    selection,              \* viewer.getSelection()
    sortOrder,              \* search.sortOrder of the configuration
    searchViewActive,       \* whether getSearchView() returns a view
    isTreeLayoutViewVisible,\* searchView.isTreeLayoutViewVisible
    searching,              \* a search started by the view is running
    pc,                     \* "idle", or the stage of the handler being dispatched
    lastCmd,                \* the handler being dispatched, with its argument and outcome
    log                     \* calls the handler made on the viewer and the host services

wbVars == <<created, marks, commandsRegistry, menuRegistry, browserMains, openState,
            instantiatedWorkbench, workbenchPromise, waiters, delivered, shutdowns,
            createCalls, createResult, apiCalls, disposeCalls, createArgs>>

svVars == <<nodes, collapsed, focus, selection, sortOrder, searchViewActive,
            isTreeLayoutViewVisible, searching, pc, lastCmd, log>>

vars == <<wbVars, svVars>>

-----------------------------------------------------------------------------
(* Bounds *)
MaxCreate == 3
MaxApiCalls == 1
MaxDispose == 2
MaxCommands == 2
MaxSelection == 2

-----------------------------------------------------------------------------
(* Values *)
Undefined == "undefined"
NoWorkbench == "no workbench"
Workbenches == {"workbench"}

Menu_CommandPalette == "Menu.CommandPalette"
Menu_StatusBarWindowIndicatorMenu == "Menu.StatusBarWindowIndicatorMenu"
Menus == {Menu_CommandPalette, Menu_StatusBarWindowIndicatorMenu}

DuplicateWorkbenchError == "Unable to create the VSCode workbench more than once."
TarballCommandId == "_workbench.getTarballProxyEndpoints"
DidLoadWorkbenchMain == "code/didLoadWorkbenchMain"

FacadeApis == {"commands.executeCommand", "env.retrievePerformanceMarks",
               "env.getUriScheme", "env.openUri", "window.createOutputChannel"}

\* options without a commands array
NoOptions == [isArray |-> FALSE, commands |-> <<>>]

\* command.menu: absent, one Menu, or an array of Menus
MenuAbsent == [kind |-> "undefined", items |-> <<>>]
MenuSingle(m) == [kind |-> "single", items |-> <<m>>]
MenuArray(s) == [kind |-> "array", items |-> s]

\* JavaScript truthiness of an optional string
Truthy(s) == s # Undefined /\ s # ""

asArray(x) == x.items

asMenuId(menu) ==
    CASE menu = Menu_CommandPalette -> "MenuId.CommandPalette"
      [] menu = Menu_StatusBarWindowIndicatorMenu -> "MenuId.StatusBarWindowIndicatorMenu"

\* command.menu ?? Menu.CommandPalette
MenuOrDefault(menu) == IF menu.kind = "undefined" THEN MenuSingle(Menu_CommandPalette) ELSE menu

RECURSIVE AppendMenuItems(_, _, _)
AppendMenuItems(registry, command, menus) ==
    IF menus = <<>> THEN registry
    ELSE AppendMenuItems(
            Append(registry, [menu |-> asMenuId(Head(menus)), id |-> command.id, title |-> command.label]),
            command, Tail(menus))

\* a registration whose menu items are appended whether or not the command has a label
RegisterOneIgnoresLabel(state, command) ==
    [commands |-> Append(state.commands, command.id),
     menus |-> AppendMenuItems(state.menus, command, asArray(MenuOrDefault(command.menu)))]

\* one iteration of the for-loop over options.commands
RegisterOne(state, command) ==
    [commands |-> Append(state.commands, command.id),
     menus |-> IF Truthy(command.label)
               THEN AppendMenuItems(state.menus, command, asArray(MenuOrDefault(command.menu)))
               ELSE state.menus]

RECURSIVE RegisterCommands(_, _)
RegisterCommands(state, commands) ==
    IF commands = <<>> THEN state
    ELSE RegisterCommands(RegisterOne(state, Head(commands)), Tail(commands))

-----------------------------------------------------------------------------
(* create(domElement, options) *)
createThrows ==
    /\ created
    /\ createResult' = DuplicateWorkbenchError
    /\ UNCHANGED <<created, commandsRegistry, menuRegistry, browserMains, openState,
                   instantiatedWorkbench, workbenchPromise, waiters, createArgs>>

\* a first call that forgets to set `created`
createFirstForgetsFlag(options) ==
    /\ ~created
    /\ created' = FALSE
    /\ commandsRegistry' = Append(commandsRegistry, TarballCommandId)
    /\ browserMains' = browserMains + 1
    /\ openState' = "opening"
    /\ createResult' = "disposable"
    /\ createArgs' = options
    /\ UNCHANGED <<menuRegistry, instantiatedWorkbench, workbenchPromise, waiters>>

createFirst(options) ==
    /\ ~created
    /\ created' = TRUE
    /\ LET reg == IF options.isArray
                  THEN RegisterCommands([commands |-> commandsRegistry, menus |-> menuRegistry],
                                        options.commands)
                  ELSE [commands |-> commandsRegistry, menus |-> menuRegistry]
       IN /\ commandsRegistry' = Append(reg.commands, TarballCommandId)
          /\ menuRegistry' = reg.menus
    /\ browserMains' = browserMains + 1
    /\ openState' = "opening"
    /\ createResult' = "disposable"
    /\ createArgs' = options
    /\ UNCHANGED <<instantiatedWorkbench, workbenchPromise, waiters>>

create(options) ==
    /\ createCalls < MaxCreate
    /\ createCalls' = createCalls + 1
    /\ marks' = Append(marks, DidLoadWorkbenchMain)
    /\ \/ createThrows
       \/ createFirst(options)
    /\ UNCHANGED <<delivered, shutdowns, apiCalls, disposeCalls>>
    /\ UNCHANGED svVars

\* new BrowserMain(...).open().then(workbench => { ... })
OpenResolved(workbench) ==
    /\ openState = "opening"
    /\ openState' = "resolved"
    /\ instantiatedWorkbench' = workbench
    /\ workbenchPromise' = [settled |-> TRUE, value |-> workbench]
    /\ UNCHANGED <<created, marks, commandsRegistry, menuRegistry, browserMains, waiters,
                   delivered, shutdowns, createCalls, createResult, apiCalls, disposeCalls, createArgs>>
    /\ UNCHANGED svVars

\* open() rejects: the then-callback never runs
OpenRejected ==
    /\ openState = "opening"
    /\ openState' = "rejected"
    /\ UNCHANGED <<created, marks, commandsRegistry, menuRegistry, browserMains,
                   instantiatedWorkbench, workbenchPromise, waiters,
                   delivered, shutdowns, createCalls, createResult, apiCalls, disposeCalls,
                   createArgs>>
    /\ UNCHANGED svVars

\* a callback written instantiatedWorkbench?.shutdown(): nothing is queued for a later workbench
DisposeCallbackOnlyIfOpen ==
    /\ created
    /\ disposeCalls < MaxDispose
    /\ disposeCalls' = disposeCalls + 1
    /\ IF instantiatedWorkbench # NoWorkbench
       THEN shutdowns' = Append(shutdowns, [workbench |-> instantiatedWorkbench, deferred |-> FALSE])
       ELSE UNCHANGED shutdowns
    /\ UNCHANGED <<created, marks, commandsRegistry, menuRegistry, browserMains, openState,
                   instantiatedWorkbench, workbenchPromise, delivered, waiters,
                   createCalls, createResult, apiCalls, createArgs>>
    /\ UNCHANGED svVars

\* the callback handed to toDisposable()
DisposeCallback ==
    /\ created
    /\ disposeCalls < MaxDispose
    /\ disposeCalls' = disposeCalls + 1
    /\ IF instantiatedWorkbench # NoWorkbench
       THEN /\ shutdowns' = Append(shutdowns, [workbench |-> instantiatedWorkbench, deferred |-> FALSE])
            /\ UNCHANGED waiters
       ELSE /\ waiters' = Append(waiters, [kind |-> "shutdown", api |-> "shutdown",
                                          n |-> disposeCalls + 1, early |-> TRUE])
            /\ UNCHANGED shutdowns
    /\ UNCHANGED <<created, marks, commandsRegistry, menuRegistry, browserMains, openState,
                   instantiatedWorkbench, workbenchPromise, delivered,
                   createCalls, createResult, apiCalls, createArgs>>
    /\ UNCHANGED svVars

\* a facade that uses the closure's workbench at once instead of awaiting the promise
FacadeCallNoAwait(api) ==
    /\ apiCalls < MaxApiCalls
    /\ apiCalls' = apiCalls + 1
    /\ delivered' = Append(delivered, [api |-> api, n |-> apiCalls + 1,
                                       early |-> ~workbenchPromise.settled,
                                       workbench |-> instantiatedWorkbench])
    /\ UNCHANGED <<created, marks, commandsRegistry, menuRegistry, browserMains, openState,
                   instantiatedWorkbench, workbenchPromise, waiters, shutdowns,
                   createCalls, createResult, disposeCalls, createArgs>>
    /\ UNCHANGED svVars

\* a facade function up to its `await workbenchPromise.p`
FacadeCall(api) ==
    /\ apiCalls < MaxApiCalls
    /\ apiCalls' = apiCalls + 1
    /\ waiters' = Append(waiters, [kind |-> "api", api |-> api, n |-> apiCalls + 1,
                                   early |-> ~workbenchPromise.settled])
    /\ UNCHANGED <<created, marks, commandsRegistry, menuRegistry, browserMains, openState,
                   instantiatedWorkbench, workbenchPromise, delivered, shutdowns,
                   createCalls, createResult, disposeCalls, createArgs>>
    /\ UNCHANGED svVars

\* what a continuation does once workbenchPromise.p has settled
RunContinuation(w, workbench) ==
    IF w.kind = "shutdown"
    THEN /\ shutdowns' = Append(shutdowns, [workbench |-> workbench, deferred |-> TRUE])
         /\ UNCHANGED delivered
    ELSE /\ delivered' = Append(delivered, [api |-> w.api, n |-> w.n, early |-> w.early,
                                           workbench |-> workbench])
         /\ UNCHANGED shutdowns

\* the microtask queue runs the oldest continuation of the settled promise
RunWaiter ==
    /\ workbenchPromise.settled
    /\ waiters # <<>>
    /\ RunContinuation(Head(waiters), workbenchPromise.value)
    /\ waiters' = Tail(waiters)
    /\ UNCHANGED <<created, marks, commandsRegistry, menuRegistry, browserMains, openState,
                   instantiatedWorkbench, workbenchPromise,
                   createCalls, createResult, apiCalls, disposeCalls, createArgs>>
    /\ UNCHANGED svVars

-----------------------------------------------------------------------------
(***************************************************************************)
(* The search-result tree and its viewer                                   *)
(***************************************************************************)
Null == "null"
SearchResultRoot == "SearchResult"

\* one workspace folder with two files; file A holds two matches, file B one
Folders == {"F1"}
Files == {"A", "B"}
Matches == {"a1", "a2", "b1"}
Elements == Folders \cup Files \cup Matches

parent(e) ==
    CASE e \in Folders -> SearchResultRoot
      [] e \in Files -> "F1"
      [] e \in {"a1", "a2"} -> "A"
      [] e = "b1" -> "B"
      [] OTHER -> Null

\* FolderMatchWorkspaceRoot has no closest root; a FileMatch has its workspace folder
closestRoot(e) == IF e \in Files THEN "F1" ELSE Null

IsFolderMatch(e) == e \in Folders
IsFileMatch(e) == e \in Files
IsMatch(e) == e \in Matches

RECURSIVE ParentChain(_)
ParentChain(e) ==
    IF parent(e) \in Elements THEN {parent(e)} \cup ParentChain(parent(e)) ELSE {}

\* the folders and files above an element, and the elements below one
AncestorsOf == [e \in Elements |-> ParentChain(e)]
Ancestors(e) == AncestorsOf[e]

DescendantsOf == [e \in Elements |-> {d \in Elements : e \in AncestorsOf[d]}]
Descendants(e) == DescendantsOf[e]

SortOrders == {"default", "modified"}

\* the order in which searchComparer puts the elements: by name, or the file modified last
\* (B) first
DisplayOrder(order) ==
    IF order = "modified" THEN <<"F1", "B", "b1", "A", "a1", "a2">>
    ELSE <<"F1", "A", "a1", "a2", "B", "b1">>

IndexIn(seq, x) == IF \E i \in DOMAIN seq : seq[i] = x
                   THEN CHOOSE i \in DOMAIN seq : seq[i] = x
                   ELSE 0

RECURSIVE Filter(_, _)
Filter(seq, keep) ==
    IF seq = <<>> THEN <<>>
    ELSE IF Head(seq) \in keep THEN <<Head(seq)>> \o Filter(Tail(seq), keep)
    ELSE Filter(Tail(seq), keep)

Range(seq) == {seq[i] : i \in DOMAIN seq}

\* the one element of a singleton
Only(S) == CHOOSE x \in S : TRUE

\* the rows of the viewer: the elements whose ancestors are all expanded
VisibleList(ns, col, order) ==
    Filter(DisplayOrder(order), {e \in ns : Ancestors(e) \cap col = {}})

\* ITreeNavigator: an index into the rows
getListIndex(list, e) == IndexIn(list, e) - 1
current(list, index) == IF index < 0 \/ index >= Len(list) THEN Null ELSE list[index + 1]

Call(target, op, args) == [target |-> target, op |-> op, args |-> args]

\* arrayContainsElementOrParent of the search model
arrayContainsElementOrParent(element, testArray) ==
    element \in Range(testArray) \/ Ancestors(element) \cap Range(testArray) # {}

\* Array.prototype.sort with searchComparer
RECURSIVE SortBy(_, _)
SortBy(seq, order) ==
    IF seq = <<>> THEN <<>>
    ELSE LET least == CHOOSE i \in DOMAIN seq :
                         \A j \in DOMAIN seq :
                            \/ IndexIn(order, seq[i]) < IndexIn(order, seq[j])
                            \/ IndexIn(order, seq[i]) = IndexIn(order, seq[j]) /\ i <= j
             rest == [k \in 1..(Len(seq) - 1) |-> IF k < least THEN seq[k] ELSE seq[k + 1]]
         IN <<seq[least]>> \o SortBy(rest, order)

\* getElementsToOperateOnInfo that takes the selection whenever it has several elements
getElementsToOperateOnInfoAnyMulti(viewerSelection, currElement, order) ==
    LET elements == SortBy(Filter(viewerSelection, Elements), DisplayOrder(order))
    IN [elements |-> IF ~(Len(elements) > 1) THEN <<currElement>> ELSE elements,
        mustReselect |-> currElement \in Range(elements)]

getElementsToOperateOnInfo(viewerSelection, currElement, order) ==
    LET elements == SortBy(Filter(viewerSelection, Elements), DisplayOrder(order))
        mustReselect == currElement \in Range(elements)
    IN [elements |-> IF ~(Len(elements) > 1 /\ currElement \in Range(elements))
                     THEN <<currElement>>
                     ELSE elements,
        mustReselect |-> mustReselect]

getVisibleParent(element, isTreeViewVisible) ==
    IF isTreeViewVisible \/ IsMatch(element) THEN parent(element) ELSE closestRoot(element)

\* the while-loops of getNextElementAfterRemoved, from navigator index `index`
RECURSIVE NextLoop(_, _, _, _)
NextLoop(element, col, index, calls) ==
    Only({
       IF cur = Null THEN [element |-> Null, collapsed |-> col, log |-> calls]
       ELSE IF IsFolderMatch(element)
            THEN IF IsFolderMatch(cur) THEN [element |-> cur, collapsed |-> col, log |-> calls]
                 ELSE NextLoop(element, col, index + 1, calls)
       ELSE IF IsFileMatch(element)
            THEN IF IsFileMatch(cur) THEN [element |-> cur, collapsed |-> col, log |-> calls]
                 ELSE NextLoop(element, col, index + 1, calls)
       ELSE IF IsMatch(cur) THEN [element |-> cur, collapsed |-> col, log |-> calls]
            ELSE NextLoop(element, col \ {cur}, index + 1,
                          Append(calls, Call("viewer", "expand", <<cur>>)))
       : cur \in {current(VisibleList(nodes, col, sortOrder), index + 1)} })

getNextElementAfterRemoved(col, element) ==
    NextLoop(element, col,
             getListIndex(VisibleList(nodes, col, sortOrder), element),
             <<Call("viewer", "navigate", <<element>>)>>)

\* the navigator index after the first three statements of getPreviousElementAfterRemoved
PreviousIndex(list, element, isTreeViewVisible) ==
    LET visibleParent == getVisibleParent(element, isTreeViewVisible)
        i0 == getListIndex(list, element) - 1
        i1 == IF visibleParent = current(list, i0) THEN i0 - 1 ELSE i0
    IN IF IsFileMatch(visibleParent)
          /\ getVisibleParent(visibleParent, isTreeViewVisible) = current(list, i1)
       THEN i1 - 1 ELSE i1

\* navigator.next(); viewer.expand(previousElement); previousElement = navigator.previous()
ExpandPrevious(st, index, kinds) ==
    IF st.element # Null /\ st.element \in kinds
    THEN [element |-> current(VisibleList(nodes, st.collapsed \ {st.element}, sortOrder),
                              (index + 1) - 1),
          collapsed |-> st.collapsed \ {st.element},
          log |-> Append(st.log, Call("viewer", "expand", <<st.element>>))]
    ELSE st

getPreviousElementAfterRemoved(col, element, isTreeViewVisible) ==
    Only({ Only({
       LET st0 == [element |-> current(list, index), collapsed |-> col,
                   log |-> <<Call("viewer", "navigate", <<element>>)>>]
       IN IF ~IsMatch(element) THEN st0
          \* a previous folder, then a previous file, is expanded
          ELSE Only({ ExpandPrevious(st1, index, Files)
                      : st1 \in {ExpandPrevious(st0, index, Folders)} })
       : index \in {PreviousIndex(list, element, isTreeViewVisible)} })
       : list \in {VisibleList(nodes, col, sortOrder)} })

getElementToFocusAfterRemoved(col, elementToRemove, isTreeViewVisible) ==
    Only({
       IF next.element # Null THEN next
       ELSE Only({ [element |-> prev.element, collapsed |-> prev.collapsed,
                    log |-> next.log \o prev.log]
                   : prev \in {getPreviousElementAfterRemoved(next.collapsed, elementToRemove,
                                                              isTreeViewVisible)} })
       : next \in {getNextElementAfterRemoved(col, elementToRemove)} })

(***************************************************************************)
(* Dispatch of one handler                                                  *)
(***************************************************************************)
treeVars == <<nodes, collapsed, focus, selection>>
envVars == <<sortOrder, searchViewActive, isTreeLayoutViewVisible>>

NoCmd == [name |-> "none", arg |-> Null, outcome |-> "none", elements |-> <<>>,
          mustReselect |-> FALSE]
Cmd(name, arg) == [name |-> name, arg |-> arg, outcome |-> "completed", elements |-> <<>>,
                   mustReselect |-> FALSE]

\* searchView?.isTreeLayoutViewVisible ?? false
treeLayoutOrFalse == IF searchViewActive THEN isTreeLayoutViewVisible ELSE FALSE

\* the elements a removal takes out of the tree: the elements, what is below them, and the
\* files and folders left empty
RECURSIVE Prune(_)
Prune(ns) ==
    LET empty == {e \in ns : ~IsMatch(e) /\ ~\E c \in ns : parent(c) = e}
    IN IF empty = {} THEN ns ELSE Prune(ns \ empty)

RemoveFromTree(ns, elems) ==
    Prune(ns \ (elems \cup UNION {Descendants(e) : e \in elems}))

\* the viewer after the model changed to node set ns
ViewerShows(ns, col, foc, sel) ==
    /\ nodes' = ns
    /\ collapsed' = col \cap ns
    /\ focus' = Filter(foc, ns \cup {Null})
    /\ selection' = Filter(sel, ns \cup {Null})

\* the view starts a search: the results of the previous one are dropped
StartSearch ==
    /\ ViewerShows({}, {}, <<>>, <<>>)
    /\ searching' = TRUE

\* a handler that only calls one method of the active search view
DelegateToView(name, method, effect) ==
    /\ pc = "idle"
    /\ pc' = "done"
    /\ lastCmd' = Cmd(name, Null)
    /\ IF searchViewActive
       THEN /\ log' = <<Call("searchView", method, <<>>)>>
            /\ CASE effect = "requery" -> StartSearch
                 [] effect = "clear" -> ViewerShows({}, {}, <<>>, <<>>) /\ searching' = FALSE
                 [] effect = "cancel" -> searching' = FALSE /\ UNCHANGED treeVars
                 [] OTHER -> UNCHANGED <<treeVars, searching>>
       ELSE /\ log' = <<>>
            /\ UNCHANGED <<treeVars, searching>>
    /\ UNCHANGED envVars
    /\ UNCHANGED wbVars

toggleCaseSensitiveCommand == DelegateToView("toggleCaseSensitiveCommand", "toggleCaseSensitive", "requery")
toggleWholeWordCommand == DelegateToView("toggleWholeWordCommand", "toggleWholeWords", "requery")
toggleRegexCommand == DelegateToView("toggleRegexCommand", "toggleRegex", "requery")
togglePreserveCaseCommand == DelegateToView("togglePreserveCaseCommand", "togglePreserveCase", "requery")
clearSearchResults == DelegateToView("clearSearchResults", "clearSearchResults", "clear")
\* cancelSearch that calls the view's clearSearchResults
cancelSearchClears == DelegateToView("cancelSearch", "cancelSearch", "clear")
cancelSearch == DelegateToView("cancelSearch", "cancelSearch", "cancel")
refreshSearch == DelegateToView("refreshSearch", "triggerQueryChange", "requery")

\* a handler that makes the given calls and touches nothing of the tree
OnlyCalls(name, calls, nextPc) ==
    /\ pc = "idle"
    /\ pc' = nextPc
    /\ lastCmd' = Cmd(name[1], name[2])
    /\ log' = calls
    /\ UNCHANGED <<treeVars, searching, envVars>>
    /\ UNCHANGED wbVars

FocusInputAction(name, editorMethod, viewMethod, inputIsSearchEditor) ==
    OnlyCalls(<<name, Null>>,
              (IF inputIsSearchEditor THEN <<Call("searchEditor", editorMethod, <<>>)>> ELSE <<>>)
              \o (IF searchViewActive THEN <<Call("searchView", viewMethod, <<>>)>> ELSE <<>>),
              "done")

FocusNextInputAction_run(inputIsSearchEditor) ==
    FocusInputAction("FocusNextInputAction", "focusNextInput", "focusNextInputBox", inputIsSearchEditor)
FocusPreviousInputAction_run(inputIsSearchEditor) ==
    FocusInputAction("FocusPreviousInputAction", "focusPrevInput", "focusPreviousInputBox", inputIsSearchEditor)

\* openSearchView(): the continuation runs when the view has been opened
openSearchView == <<Call("viewsService", "openView", <<>>)>>

ReplaceInFilesAction_run == OnlyCalls(<<"ReplaceInFilesAction", Null>>, openSearchView, "await")

FindInFilesCommand(mode, hasQuery) ==
    IF mode = "view"
    THEN OnlyCalls(<<"FindInFilesCommand", IF hasQuery THEN "query" ELSE Null>>,
                   openSearchView, "await")
    ELSE OnlyCalls(<<"FindInFilesCommand", mode>>,
                   <<Call("commandService", "executeCommand", <<"search.action.openEditor">>)>>, "done")

CloseReplaceAction_run ==
    OnlyCalls(<<"CloseReplaceAction", Null>>,
              IF searchViewActive
              THEN <<Call("searchAndReplaceWidget", "toggleReplace", <<>>),
                     Call("searchAndReplaceWidget", "focus", <<>>)>>
              ELSE <<>>,
              "done")

ToggleSearchOnTypeAction_run ==
    OnlyCalls(<<"ToggleSearchOnTypeAction", Null>>,
              <<Call("configurationService", "getValue", <<"search.searchOnType">>),
                Call("configurationService", "updateValue", <<"search.searchOnType">>)>>,
              "done")

clearHistoryCommand ==
    OnlyCalls(<<"clearHistoryCommand", Null>>, <<Call("searchHistoryService", "clearHistory", <<>>)>>, "done")

focusSearchListCommand == OnlyCalls(<<"focusSearchListCommand", Null>>, openSearchView, "await")

FocusSearchResultAction(name, editorMethod, inputIsSearchEditor) ==
    IF inputIsSearchEditor
    THEN OnlyCalls(<<name, Null>>, <<Call("searchEditor", editorMethod, <<>>)>>, "done")
    ELSE OnlyCalls(<<name, Null>>, openSearchView, "await")

FocusNextSearchResultAction_run(inputIsSearchEditor) ==
    FocusSearchResultAction("FocusNextSearchResultAction", "focusNextResult", inputIsSearchEditor)
FocusPreviousSearchResultAction_run(inputIsSearchEditor) ==
    FocusSearchResultAction("FocusPreviousSearchResultAction", "focusPreviousResult", inputIsSearchEditor)

\* the then-callbacks of openSearchView(), by the handler that waits
ViewOpened(openedView) ==
    /\ pc = "await"
    /\ pc' = "done"
    /\ searchViewActive' = (searchViewActive \/ openedView)
    /\ UNCHANGED <<lastCmd, sortOrder, isTreeLayoutViewVisible>>
    /\ UNCHANGED wbVars
    /\ IF ~openedView
       THEN UNCHANGED <<log, treeVars, searching>>
       ELSE CASE lastCmd.name = "ReplaceInFilesAction"
                 \/ (lastCmd.name = "FindInFilesCommand" /\ lastCmd.arg = Null) ->
                   /\ log' = log \o <<Call("searchAndReplaceWidget", "toggleReplace", <<>>),
                                      Call("searchView", "updateTextFromFindWidgetOrSelection", <<>>),
                                      Call("searchAndReplaceWidget", "focus", <<>>)>>
                   /\ UNCHANGED <<treeVars, searching>>
              [] lastCmd.name = "FindInFilesCommand" /\ lastCmd.arg = "query" ->
                   /\ log' = log \o <<Call("searchAndReplaceWidget", "toggleReplace", <<>>),
                                      Call("searchView", "setSearchParameters", <<>>),
                                      Call("searchAndReplaceWidget", "focus", <<>>)>>
                   \* args.triggerSearch decides whether the view searches at once
                   /\ \/ StartSearch
                      \/ UNCHANGED <<treeVars, searching>>
              [] lastCmd.name = "focusSearchListCommand" ->
                   /\ log' = Append(log, Call("searchView", "moveFocusToResults", <<>>))
                   /\ UNCHANGED <<treeVars, searching>>
              [] OTHER ->
                   \* selectNextMatch / selectPreviousMatch: the view moves to a match
                   /\ log' = Append(log, Call("searchView",
                                              IF lastCmd.name = "FocusNextSearchResultAction"
                                              THEN "selectNextMatch" ELSE "selectPreviousMatch", <<>>))
                   /\ IF nodes \cap Matches = {}
                      THEN UNCHANGED treeVars
                      ELSE \E m \in nodes \cap Matches :
                              /\ focus' = <<m>>
                              /\ selection' = <<m>>
                              /\ collapsed' = collapsed \ Ancestors(m)
                              /\ UNCHANGED nodes
                   /\ UNCHANGED searching

expandAll ==
    /\ pc = "idle"
    /\ pc' = "done"
    /\ lastCmd' = Cmd("expandAll", Null)
    /\ IF searchViewActive
       THEN /\ log' = <<Call("viewer", "expandAll", <<>>)>>
            /\ collapsed' = {}
       ELSE /\ log' = <<>>
            /\ UNCHANGED collapsed
    /\ UNCHANGED <<nodes, focus, selection, searching, envVars>>
    /\ UNCHANGED wbVars

(***************************************************************************)
(* collapseDeepestExpandedLevel                                            *)
(***************************************************************************)
Collapsible(ns) == {e \in ns : ~IsMatch(e)}

\* FolderMatchWorkspaceRoot or FolderMatchNoRoot
IsRootFolder(e) == e \in Folders

\* the first while-loop: the rows after the first, up to the first Match
RECURSIVE ScanLevels(_, _, _)
ScanLevels(list, index, firstLevel) ==
    LET node == current(list, index)
    IN IF node = Null THEN [fileMatchLevel |-> FALSE, firstLevel |-> firstLevel]
       ELSE IF IsMatch(node) THEN [fileMatchLevel |-> TRUE, firstLevel |-> firstLevel]
       ELSE ScanLevels(list, index + 1,
                       firstLevel \/ (isTreeLayoutViewVisible /\ IsRootFolder(parent(node))))

\* do { if (node instanceof FileMatch) viewer.collapse(node) } while (node = navigator.next())
RECURSIVE CollapseFileMatches(_, _)
CollapseFileMatches(col, index) ==
    Only({ IF node = Null THEN c
           ELSE CollapseFileMatches(IF IsFileMatch(node) THEN c \cup {node} ELSE c, index + 1)
           : c \in {col}, node \in {current(VisibleList(nodes, col, sortOrder), index)} })

\* the loop of the first-level branch
RECURSIVE CollapseFirstLevel(_, _)
CollapseFirstLevel(col, index) ==
    Only({
       LET immediateParent == parent(node)
       IN IF node = Null THEN c
          ELSE IF IsRootFolder(immediateParent)
               THEN CollapseFirstLevel(IF immediateParent \in nodes /\ immediateParent \in c
                                       THEN c \cup {immediateParent}
                                              \cup (Descendants(immediateParent) \cap Collapsible(nodes))
                                       ELSE Collapsible(nodes),
                                       index + 1)
          ELSE CollapseFirstLevel(c, index + 1)
       : c \in {col}, node \in {current(VisibleList(nodes, col, sortOrder), index)} })

collapseDeepestExpandedLevel ==
    /\ pc = "idle"
    /\ pc' = "done"
    /\ lastCmd' = Cmd("collapseDeepestExpandedLevel", Null)
    /\ IF ~searchViewActive
       THEN /\ log' = <<>>
            /\ UNCHANGED treeVars
       ELSE LET list == VisibleList(nodes, collapsed, sortOrder)
                first == current(list, 0)
                can == IF first # Null /\ IsFolderMatch(first)
                       THEN ScanLevels(list, 1, FALSE)
                       ELSE [fileMatchLevel |-> FALSE, firstLevel |-> FALSE]
                col == IF can.fileMatchLevel THEN CollapseFileMatches(collapsed, 0)
                       ELSE IF can.firstLevel THEN CollapseFirstLevel(collapsed, 0)
                       ELSE Collapsible(nodes)
                firstFocus == IF focus = <<>> THEN Null ELSE Head(focus)
                firstFocusParent == IF firstFocus = Null THEN Null ELSE parent(firstFocus)
                refocus == /\ firstFocusParent \in Folders \cup Files
                           /\ firstFocusParent \in nodes
                           /\ firstFocusParent \in col
                newFocus == LET rows == VisibleList(nodes, col, sortOrder)
                            IN IF rows = <<>> THEN <<>> ELSE <<Head(rows)>>
            IN /\ collapsed' = col
               /\ focus' = IF refocus THEN newFocus ELSE focus
               /\ selection' = IF refocus THEN newFocus ELSE selection
               /\ log' = <<Call("viewer", "navigate", <<>>), Call("viewer", "collapse", <<>>)>>
                         \o (IF refocus
                             THEN <<Call("viewer", "domFocus", <<>>), Call("viewer", "focusFirst", <<>>),
                                    Call("viewer", "setSelection", newFocus)>>
                             ELSE <<>>)
               /\ UNCHANGED nodes
    /\ UNCHANGED <<searching, envVars>>
    /\ UNCHANGED wbVars

(***************************************************************************)
(* RemoveAction                                                             *)
(***************************************************************************)
\* the for-loop of RemoveAction.run without the test of line 598 on the element found
RemoveFocusLoopUnchecked(elementsToRemove, i, col, calls) ==
    Only({
       IF next.element # Null
       THEN [reselected |-> TRUE, element |-> next.element,
             collapsed |-> next.collapsed \ Ancestors(next.element),
             log |-> calls \o next.log
                     \o <<Call("viewer", "reveal", <<next.element>>),
                          Call("viewer", "setFocus", <<next.element>>),
                          Call("viewer", "setSelection", <<next.element>>)>>]
       ELSE [reselected |-> FALSE, element |-> Null, collapsed |-> next.collapsed,
             log |-> calls \o next.log]
       : next \in {getElementToFocusAfterRemoved(col, elementsToRemove[i], treeLayoutOrFalse)} })

\* the for-loop of RemoveAction.run over elementsToRemove, from its i-th element
RECURSIVE RemoveFocusLoop(_, _, _, _)
RemoveFocusLoop(elementsToRemove, i, col, calls) ==
    IF i > Len(elementsToRemove)
    THEN [reselected |-> FALSE, element |-> Null, collapsed |-> col, log |-> calls]
    ELSE Only({
            IF next.element # Null
               /\ ~arrayContainsElementOrParent(next.element, elementsToRemove)
            THEN [reselected |-> TRUE, element |-> next.element,
                  \* reveal() expands down to the element
                  collapsed |-> next.collapsed \ Ancestors(next.element),
                  log |-> calls \o next.log
                          \o <<Call("viewer", "reveal", <<next.element>>),
                               Call("viewer", "setFocus", <<next.element>>),
                               Call("viewer", "setSelection", <<next.element>>)>>]
            ELSE RemoveFocusLoop(elementsToRemove, i + 1, next.collapsed, calls \o next.log)
            : next \in {getElementToFocusAfterRemoved(col, elementsToRemove[i], treeLayoutOrFalse)} })

\* RemoveAction.run that looks for a new focus whatever mustReselect is
RemoveAction_reselectAlways(opInfo) ==
    RemoveFocusLoop(opInfo.elements, 1, collapsed, <<>>)

\* what RemoveAction.run does to the viewer before it calls the model, and its calls
RemoveAction_reselect(opInfo) ==
    IF opInfo.mustReselect
    THEN RemoveFocusLoop(opInfo.elements, 1, collapsed, <<>>)
    ELSE [reselected |-> FALSE, element |-> Null, collapsed |-> collapsed, log |-> <<>>]

\* RemoveAction.run that calls batchRemove before it looks for the element to focus
RemoveAction_planModelFirst(element) ==
    Only({ Only({
       [opInfo |-> opInfo,
        collapsed |-> loop.collapsed,
        focus |-> IF loop.reselected THEN <<loop.element>> ELSE focus,
        selection |-> IF loop.reselected THEN <<loop.element>> ELSE selection,
        log |-> (IF searchViewActive
                 THEN <<Call("searchResult", "batchRemove", opInfo.elements)>> ELSE <<>>)
                \o loop.log
                \o <<Call("viewer", "domFocus", <<>>)>>]
       : loop \in {RemoveAction_reselect(opInfo)} })
       : opInfo \in {getElementsToOperateOnInfo(selection, element, sortOrder)} })

\* what RemoveAction.run would do if it looked for a new focus whatever mustReselect is
RemoveAction_plan(element) ==
    Only({ Only({
       [opInfo |-> opInfo,
        collapsed |-> loop.collapsed,
        focus |-> IF loop.reselected THEN <<loop.element>> ELSE focus,
        selection |-> IF loop.reselected THEN <<loop.element>> ELSE selection,
        log |-> loop.log
                \o (IF searchViewActive
                    THEN <<Call("searchResult", "batchRemove", opInfo.elements)>> ELSE <<>>)
                \o <<Call("viewer", "domFocus", <<>>)>>]
       : loop \in {RemoveAction_reselect(opInfo)} })
       : opInfo \in {getElementsToOperateOnInfo(selection, element, sortOrder)} })

RemoveAction_run(element) ==
    /\ pc = "idle"
    /\ element \in Range(VisibleList(nodes, collapsed, sortOrder))
    /\ pc' = "done"
    /\ \E plan \in {RemoveAction_plan(element)} :
          /\ lastCmd' = [name |-> "RemoveAction", arg |-> element, outcome |-> "completed",
                         elements |-> plan.opInfo.elements,
                         mustReselect |-> plan.opInfo.mustReselect]
          /\ log' = plan.log
          /\ ViewerShows(IF searchViewActive
                         THEN RemoveFromTree(nodes, Range(plan.opInfo.elements))
                         ELSE nodes,
                         plan.collapsed, plan.focus, plan.selection)
    /\ UNCHANGED <<searching, envVars>>
    /\ UNCHANGED wbVars

(***************************************************************************)
(* ReplaceActionRunner                                                      *)
(***************************************************************************)
\* start position of a match's range within its file
startPosition(m) == IF m = "a2" THEN 2 ELSE 1

\* the do-while loop of getElementToFocusAfterReplace, at navigator index `index`
RECURSIVE FocusAfterReplaceLoop(_, _, _)
FocusAfterReplaceLoop(currElement, index, fileMatched) ==
    Only({ Only({
    LET sameFile == IsMatch(elementToFocus) /\ parent(elementToFocus) = parent(currElement)
        stop == IF IsMatch(elementToFocus)
                THEN IF sameFile
                     THEN startPosition(currElement) <= startPosition(elementToFocus)
                     ELSE matched
                ELSE matched /\ elementToFocus \in collapsed
    IN IF stop \/ current(list, index + 1) = Null
       THEN elementToFocus
       ELSE FocusAfterReplaceLoop(currElement, index + 1, matched \/ sameFile)
    : elementToFocus \in {current(list, index)}, matched \in {fileMatched} })
    : list \in {VisibleList(nodes, collapsed, sortOrder)} })

getElementToFocusAfterReplace(currElement) == FocusAfterReplaceLoop(currElement, -1, FALSE)

hasSameParent(element, currBottomElem) ==
    /\ IsMatch(currBottomElem)
    /\ element # Null
    /\ IsMatch(element)
    /\ parent(element) = parent(currBottomElem)

getElementToShowReplacePreview(elementToFocus, currBottomElem, isTreeViewVisible) ==
    IF hasSameParent(elementToFocus, currBottomElem)
    THEN [element |-> elementToFocus, collapsed |-> collapsed, log |-> <<>>]
    ELSE Only({ [element |-> IF hasSameParent(prev.element, currBottomElem) THEN prev.element ELSE Null,
                 collapsed |-> prev.collapsed, log |-> prev.log]
                : prev \in {getPreviousElementAfterRemoved(collapsed, elementToFocus, isTreeViewVisible)} })

\* performReplace(element) of a runner made with or without a viewlet; the two booleans are
\* the configuration's search.useReplacePreview and hasToOpenFile()
performReplace_plan(element, hasViewlet, useReplacePreview, hasToOpenFile) ==
    Only({
    LET elementsToReplace == opInfo.elements
        batchReplace == IF searchViewActive
                        THEN <<Call("searchResult", "batchReplace", elementsToReplace)>> ELSE <<>>
        currentBottomFocusElement == elementsToReplace[Len(elementsToReplace)]
    IN IF IsMatch(currentBottomFocusElement)
       THEN Only({ Only({
               [opInfo |-> opInfo, outcome |-> "completed",
                collapsed |-> preview.collapsed,
                focus |-> IF elementToFocus # Null THEN <<elementToFocus>> ELSE focus,
                selection |-> IF elementToFocus # Null THEN <<elementToFocus>> ELSE selection,
                log |-> batchReplace
                        \o <<Call("viewer", "navigate", <<>>)>>
                        \o (IF elementToFocus # Null
                            THEN <<Call("viewer", "setFocus", <<elementToFocus>>),
                                   Call("viewer", "setSelection", <<elementToFocus>>)>>
                            ELSE <<>>)
                        \o preview.log
                        \o <<Call("viewer", "domFocus", <<>>)>>
                        \o (IF ~useReplacePreview \/ preview.element = Null \/ hasToOpenFile
                            THEN IF hasViewlet
                                 THEN <<Call("viewlet", "open", <<currentBottomFocusElement>>)>>
                                 ELSE <<>>
                            ELSE <<Call("replaceService", "openReplacePreview", <<preview.element>>)>>)]
               : preview \in {getElementToShowReplacePreview(
                                 elementToFocus, currentBottomFocusElement, treeLayoutOrFalse)} })
               : elementToFocus \in {getElementToFocusAfterReplace(currentBottomFocusElement)} })
       \* this.getElementToFocusAfterRemoved runs with the runner as `this`, which has no
       \* getNextElementAfterRemoved: the call throws before any navigation
       ELSE [opInfo |-> opInfo, outcome |-> "TypeError",
             collapsed |-> collapsed, focus |-> focus, selection |-> selection,
             log |-> batchReplace]
    : opInfo \in {getElementsToOperateOnInfo(selection, element, sortOrder)} })

performReplace(name, element, hasViewlet, useReplacePreview, hasToOpenFile) ==
    /\ pc = "idle"
    /\ element \in Range(VisibleList(nodes, collapsed, sortOrder))
    /\ \E plan \in {performReplace_plan(element, hasViewlet, useReplacePreview, hasToOpenFile)} :
          /\ lastCmd' = [name |-> name, arg |-> element, outcome |-> plan.outcome,
                         elements |-> plan.opInfo.elements,
                         mustReselect |-> plan.opInfo.mustReselect]
          /\ log' = plan.log
          /\ collapsed' = plan.collapsed
          /\ focus' = plan.focus
          /\ selection' = plan.selection
    \* batchReplace is not awaited: the model replaces after the handler has returned
    /\ pc' = IF searchViewActive THEN "replacing" ELSE "done"
    /\ UNCHANGED <<nodes, searching, envVars>>
    /\ UNCHANGED wbVars

ReplaceAction_run(element, useReplacePreview, hasToOpenFile) ==
    /\ IsMatch(element)
    /\ performReplace("ReplaceAction", element, TRUE, useReplacePreview, hasToOpenFile)

ReplaceAllAction_run(fileMatch, useReplacePreview, hasToOpenFile) ==
    /\ IsFileMatch(fileMatch)
    /\ performReplace("ReplaceAllAction", fileMatch, TRUE, useReplacePreview, hasToOpenFile)

ReplaceAllInFolderAction_run(folderMatch, useReplacePreview, hasToOpenFile) ==
    /\ IsFolderMatch(folderMatch)
    /\ performReplace("ReplaceAllInFolderAction", folderMatch, FALSE, useReplacePreview, hasToOpenFile)

\* SearchResult.batchReplace finishes: the replaced matches leave the results
BatchReplaceCompletes ==
    /\ pc = "replacing"
    /\ pc' = "done"
    /\ ViewerShows(RemoveFromTree(nodes, Range(lastCmd.elements)), collapsed, focus, selection)
    /\ UNCHANGED <<lastCmd, log, searching, envVars>>
    /\ UNCHANGED wbVars

(***************************************************************************)
(* Copy commands                                                            *)
(***************************************************************************)
\* A text is the sequence of its lines; a line is named by the element it renders.
matchToString(match) == <<match>>

fileMatchToString(fileMatch) ==
    [text |-> <<fileMatch>> \o Filter(DisplayOrder("default"), {m \in nodes : parent(m) = fileMatch}),
     count |-> Cardinality({m \in nodes : parent(m) = fileMatch})]

RECURSIVE JoinFiles(_)
JoinFiles(files) ==
    IF files = <<>> THEN <<>>
    ELSE fileMatchToString(Head(files)).text \o JoinFiles(Tail(files))

folderMatchToString(folderMatch) ==
    [text |-> JoinFiles(Filter(DisplayOrder("default"), {f \in nodes : parent(f) = folderMatch})),
     count |-> Cardinality({m \in nodes : IsMatch(m) /\ folderMatch \in Ancestors(m)})]

RECURSIVE JoinFolders(_)
JoinFolders(folders) ==
    IF folders = <<>> THEN <<>>
    ELSE (IF folderMatchToString(Head(folders)).count # 0
          THEN folderMatchToString(Head(folders)).text ELSE <<>>)
         \o JoinFolders(Tail(folders))

allFolderMatchesToString(folderMatches) ==
    JoinFolders(Filter(DisplayOrder("default"), folderMatches))

\* searchView?.getControl().getSelection()[0]
getSelectedRow ==
    IF searchViewActive /\ selection # <<>> THEN Head(selection) ELSE Undefined

writeText(text) == <<Call("clipboardService", "writeText", text)>>

copyPathCommand(fileMatch) ==
    LET target == IF fileMatch = Undefined THEN getSelectedRow ELSE fileMatch
    IN OnlyCalls(<<"copyPathCommand", fileMatch>>,
                 IF target \in Files \cup Folders
                 THEN <<Call("labelService", "getUriLabel", <<target>>)>> \o writeText(<<target>>)
                 ELSE <<>>,
                 "done")

\* copyMatchCommand without its `if (text)`
copyMatchCommandAnyText(match) ==
    LET target == IF match = Undefined THEN getSelectedRow ELSE match
        text == CASE IsMatch(target) -> matchToString(target)
                  [] IsFileMatch(target) -> fileMatchToString(target).text
                  [] IsFolderMatch(target) -> folderMatchToString(target).text
                  [] OTHER -> <<>>
    IN OnlyCalls(<<"copyMatchCommand", match>>,
                 IF target \in {Undefined, Null} THEN <<>> ELSE writeText(text),
                 "done")

copyMatchCommand(match) ==
    LET target == IF match = Undefined THEN getSelectedRow ELSE match
        text == CASE IsMatch(target) -> matchToString(target)
                  [] IsFileMatch(target) -> fileMatchToString(target).text
                  [] IsFolderMatch(target) -> folderMatchToString(target).text
                  [] OTHER -> <<>>
    IN OnlyCalls(<<"copyMatchCommand", match>>,
                 IF text # <<>> THEN writeText(text) ELSE <<>>,
                 "done")

\* copyAllCommand without its `if (searchView)`
copyAllCommandUnguarded ==
    OnlyCalls(<<"copyAllCommand", Null>>,
              writeText(allFolderMatchesToString(nodes \cap Folders)),
              "done")

copyAllCommand ==
    OnlyCalls(<<"copyAllCommand", Null>>,
              IF searchViewActive
              THEN writeText(allFolderMatchesToString(nodes \cap Folders))
              ELSE <<>>,
              "done")

(***************************************************************************)
(* The user, the host and the event loop                                    *)
(***************************************************************************)
\* a handler has returned and its asynchronous work is done: the next event is taken
Return ==
    /\ pc = "done"
    /\ pc' = "idle"
    /\ lastCmd' = NoCmd
    /\ log' = <<>>
    /\ UNCHANGED <<treeVars, searching, envVars>>
    /\ UNCHANGED wbVars

\* the user (or another extension) selects rows; the first of them gets the focus
UserSelects(sel) ==
    /\ pc = "idle"
    /\ selection' = sel
    /\ focus' = (LET rows == Filter(sel, Elements) IN IF rows = <<>> THEN <<>> ELSE <<Head(rows)>>)
    /\ UNCHANGED <<nodes, collapsed, searching, envVars, pc, lastCmd, log>>
    /\ UNCHANGED wbVars

UserToggles(e) ==
    /\ pc = "idle"
    /\ e \in Collapsible(nodes)
    /\ collapsed' = IF e \in collapsed THEN collapsed \ {e} ELSE collapsed \cup {e}
    /\ UNCHANGED <<nodes, focus, selection, searching, envVars, pc, lastCmd, log>>
    /\ UNCHANGED wbVars

\* the search view is shown or hidden, the layout or the sort order is switched
HostChanges(active, treeLayout, order) ==
    /\ pc = "idle"
    /\ searchViewActive' = active
    /\ isTreeLayoutViewVisible' = treeLayout
    /\ sortOrder' = order
    /\ UNCHANGED <<treeVars, searching, pc, lastCmd, log>>
    /\ UNCHANGED wbVars

\* the running search delivers its results
SearchResultsArrive ==
    /\ pc = "idle"
    /\ searching
    /\ searching' = FALSE
    /\ ViewerShows(Elements, {}, <<>>, <<>>)
    /\ UNCHANGED <<envVars, pc, lastCmd, log>>
    /\ UNCHANGED wbVars

SvInit ==
    /\ nodes = Elements
    /\ collapsed = {}
    /\ focus = <<>>
    /\ selection = <<>>
    /\ sortOrder = "default"
    /\ searchViewActive = TRUE
    /\ isTreeLayoutViewVisible = FALSE
    /\ searching = FALSE
    /\ pc = "idle"
    /\ lastCmd = NoCmd
    /\ log = <<>>

WbInit ==
    /\ created = FALSE
    /\ marks = <<>>
    /\ commandsRegistry = <<>>
    /\ menuRegistry = <<>>
    /\ browserMains = 0
    /\ openState = "none"
    /\ instantiatedWorkbench = NoWorkbench
    /\ workbenchPromise = [settled |-> FALSE, value |-> NoWorkbench]
    /\ waiters = <<>>
    /\ delivered = <<>>
    /\ shutdowns = <<>>
    /\ createCalls = 0
    /\ createResult = "not called"
    /\ apiCalls = 0
    /\ disposeCalls = 0
    /\ createArgs = NoOptions
    /\ SvInit

Init == WbInit

(* Inputs of create() *)
CommandIds == {"cmd.a", "cmd.b"}
Labels == {Undefined, "", "Label"}
MenuValues == {MenuAbsent, MenuSingle(Menu_CommandPalette),
               MenuSingle(Menu_StatusBarWindowIndicatorMenu), MenuArray(<<>>),
               MenuArray(<<Menu_StatusBarWindowIndicatorMenu, Menu_CommandPalette>>)}
CommandValues == [id : CommandIds, label : Labels, menu : MenuValues]

SeqsUpTo(S, n) == UNION {[1..k -> S] : k \in 0..n}

\* options.commands is an array of at most MaxCommands commands, or is not given
AllOptions ==
    {NoOptions} \cup {[isArray |-> TRUE, commands |-> cs] : cs \in SeqsUpTo(CommandValues, MaxCommands)}

\* the options used where the life cycle, not the registration, is explored
LifeCycleOptions ==
    {NoOptions,
     [isArray |-> TRUE,
      commands |-> <<[id |-> "cmd.a", label |-> "Label", menu |-> MenuAbsent]>>]}

\* a call that throws does not read its options
createAny == \E options \in (IF created THEN LifeCycleOptions ELSE AllOptions) : create(options)
createOne == \E options \in LifeCycleOptions : create(options)
OpenResolves == \E workbench \in Workbenches : OpenResolved(workbench)
Facade == \E api \in FacadeApis : FacadeCall(api)

\* registration: create() called with every shape of options.commands
RegNext == createAny
RegSpec == WbInit /\ [][RegNext]_vars

\* life cycle: create, open, facade calls, dispose
WbNext ==
    \/ createOne
    \/ OpenResolves
    \/ OpenRejected
    \/ DisposeCallback
    \/ Facade
    \/ RunWaiter
WbSpec == WbInit /\ [][WbNext]_vars
\* the event loop runs every queued microtask
WbFairSpec == WbSpec /\ WF_vars(RunWaiter)

(* Inputs of the search handlers *)
Selections == {q \in SeqsUpTo(nodes \cup {Null}, MaxSelection) :
                 \A i, j \in DOMAIN q : i # j => q[i] # q[j]}
\* the element a menu passes, or none; a folder match outlives its results in searchResult
CopyArguments == {Undefined} \cup nodes \cup Folders
Rows == Range(VisibleList(nodes, collapsed, sortOrder))

\* a click selects one row, or none
Clicks == SeqsUpTo(nodes \cup {Null}, 1)

\* the user clears the selection, or builds one from the empty selection
UserSelectsRows ==
    /\ pc = "idle"
    /\ \E sel \in (IF selection = <<>> THEN Selections ELSE {<<>>}) : UserSelects(sel)
UserClicksRow == pc = "idle" /\ \E sel \in Clicks : UserSelects(sel)
UserTogglesRow == pc = "idle" /\ \E e \in Collapsible(nodes) : UserToggles(e)
HostChangesView ==
    /\ pc = "idle"
    /\ \E active \in BOOLEAN, treeLayout \in BOOLEAN, order \in SortOrders :
          HostChanges(active, treeLayout, order)
FocusNextInput == pc = "idle" /\ \E b \in BOOLEAN : FocusNextInputAction_run(b)
FocusPreviousInput == pc = "idle" /\ \E b \in BOOLEAN : FocusPreviousInputAction_run(b)
FindInFiles ==
    /\ pc = "idle"
    /\ \E mode \in {"view", "newEditor"}, hasQuery \in BOOLEAN : FindInFilesCommand(mode, hasQuery)
FocusNextSearchResult == pc = "idle" /\ \E b \in BOOLEAN : FocusNextSearchResultAction_run(b)
FocusPreviousSearchResult == pc = "idle" /\ \E b \in BOOLEAN : FocusPreviousSearchResultAction_run(b)
ViewOpens == pc = "await" /\ \E openedView \in BOOLEAN : ViewOpened(openedView)
Remove == pc = "idle" /\ \E element \in Rows : RemoveAction_run(element)
Replace ==
    /\ pc = "idle"
    /\ \E element \in Rows, p \in BOOLEAN, o \in BOOLEAN : ReplaceAction_run(element, p, o)
ReplaceAll ==
    /\ pc = "idle"
    /\ \E element \in Rows, p \in BOOLEAN, o \in BOOLEAN : ReplaceAllAction_run(element, p, o)
ReplaceAllInFolder ==
    /\ pc = "idle"
    /\ \E element \in Rows, p \in BOOLEAN, o \in BOOLEAN : ReplaceAllInFolderAction_run(element, p, o)
CopyPath == pc = "idle" /\ \E a \in CopyArguments \ Matches : copyPathCommand(a)
CopyMatch == pc = "idle" /\ \E a \in CopyArguments : copyMatchCommand(a)

\* every handler, with a user who selects by clicking
Next ==
    \/ UserClicksRow
    \/ UserTogglesRow
    \/ HostChangesView
    \/ SearchResultsArrive
    \/ toggleCaseSensitiveCommand
    \/ toggleWholeWordCommand
    \/ toggleRegexCommand
    \/ togglePreserveCaseCommand
    \/ FocusNextInput
    \/ FocusPreviousInput
    \/ ReplaceInFilesAction_run
    \/ FindInFiles
    \/ CloseReplaceAction_run
    \/ ToggleSearchOnTypeAction_run
    \/ expandAll
    \/ clearSearchResults
    \/ cancelSearch
    \/ refreshSearch
    \/ collapseDeepestExpandedLevel
    \/ FocusNextSearchResult
    \/ FocusPreviousSearchResult
    \/ ViewOpens
    \/ Remove
    \/ Replace
    \/ ReplaceAll
    \/ ReplaceAllInFolder
    \/ BatchReplaceCompletes
    \/ CopyPath
    \/ CopyMatch
    \/ copyAllCommand
    \/ clearHistoryCommand
    \/ focusSearchListCommand
    \/ Return

Spec == Init /\ [][Next]_vars

\* the handlers that operate on the selection, with a user who selects several rows
OperateNext ==
    \/ UserSelectsRows
    \/ UserTogglesRow
    \/ HostChangesView
    \/ Remove
    \/ Replace
    \/ ReplaceAll
    \/ ReplaceAllInFolder
    \/ BatchReplaceCompletes
    \/ Return
OperateSpec == Init /\ [][OperateNext]_vars
-----------------------------------------------------------------------------
(* Properties of the bootstrap *)

createCalled == createCalls' = createCalls + 1

\* what a create() call may touch besides its result
createFrame ==
    UNCHANGED <<created, commandsRegistry, menuRegistry, browserMains, openState,
                instantiatedWorkbench, workbenchPromise, waiters, delivered, shutdowns,
                apiCalls, disposeCalls, createArgs>>

\* C1 as stated: only the first create() call succeeds; every later call throws
\* 'Unable to create the VSCode workbench more than once.' and has no other effect at all.
C1_LaterCreateHasNoEffect ==
    [][createCalled =>
        /\ (createResult' = "disposable") <=> (createCalls = 0)
        /\ createCalls > 0 =>
              /\ createResult' = DuplicateWorkbenchError
              /\ createFrame
              /\ UNCHANGED marks]_vars

\* C1 amended: only the first create() call succeeds; every later call throws the
\* duplicate-workbench error and, apart from recording the performance mark
\* 'code/didLoadWorkbenchMain', has no other effect (no command, no menu item, no second
\* BrowserMain), whether the workbench is still opening or the disposable was disposed.
C1_LaterCreateOnlyMarks ==
    [][createCalled =>
        /\ (createResult' = "disposable") <=> (createCalls = 0)
        /\ createCalls = 0 => browserMains' = 1 /\ created'
        /\ createCalls > 0 =>
              /\ createResult' = DuplicateWorkbenchError
              /\ createFrame
              /\ marks' = Append(marks, DidLoadWorkbenchMain)]_vars

\* a later call threw while the first workbench was still opening and after a dispose
C1_Witness ==
    /\ createResult = DuplicateWorkbenchError
    /\ openState = "opening"
    /\ disposeCalls > 0
    /\ browserMains = 1

IsDelivered(n) == \E i \in DOMAIN delivered : delivered[i].n = n
IsWaiting(n) == \E i \in DOMAIN waiters : waiters[i].kind = "api" /\ waiters[i].n = n

C2_Safety ==
    /\ \A i \in DOMAIN delivered :
          /\ openState = "resolved"
          /\ delivered[i].workbench \in Workbenches
          /\ delivered[i].workbench = instantiatedWorkbench
    /\ \A n \in 1..apiCalls : IsDelivered(n) # IsWaiting(n)
    /\ openState # "resolved" => \A n \in 1..apiCalls : IsWaiting(n)

DisposeCalled == disposeCalls' = disposeCalls + 1

QueuedShutdowns == {i \in DOMAIN waiters : waiters[i].kind = "shutdown"}

C3_Step ==
    /\ DisposeCalled /\ instantiatedWorkbench # NoWorkbench =>
          shutdowns' = Append(shutdowns, [workbench |-> instantiatedWorkbench, deferred |-> FALSE])
    /\ DisposeCalled /\ instantiatedWorkbench = NoWorkbench =>
          /\ shutdowns' = shutdowns
          /\ Cardinality(QueuedShutdowns') = Cardinality(QueuedShutdowns) + 1
    /\ shutdowns' # shutdowns => openState = "resolved"

\* C3: disposing the value returned by create() shuts the workbench down in either
\* interleaving: with open() resolved, shutdown() is called within the dispose call; disposed
\* earlier, shutdown() is called after open() resolves; the receiver is always the
\* instantiated workbench.
C3_DisposeShutsDown ==
    /\ [][C3_Step]_vars
    /\ [](\A i \in DOMAIN shutdowns :
             /\ shutdowns[i].workbench # NoWorkbench
             /\ shutdowns[i].workbench = instantiatedWorkbench)
    /\ \A n \in 1..MaxDispose :
          (openState = "resolved" /\ disposeCalls >= n) ~> (Len(shutdowns) >= n)

\* one dispose before open() resolved and one after it, both followed by shutdown()
C3_Witness ==
    /\ \E i \in DOMAIN shutdowns : shutdowns[i].deferred
    /\ \E i \in DOMAIN shutdowns : ~shutdowns[i].deferred

Occurrences(seq, x) == Cardinality({i \in DOMAIN seq : seq[i] = x})
ItemsOf(id) == {i \in DOMAIN menuRegistry : menuRegistry[i].id = id}
ItemsOfIn(id, menuId) == {i \in ItemsOf(id) : menuRegistry[i].menu = menuId}
CommandsWith(id) == {i \in DOMAIN createArgs.commands : createArgs.commands[i].id = id}

\* the menus a labelled command asks for: the entries of command.menu, the command palette
\* when command.menu is not given
ListedMenus(command) ==
    IF command.menu.kind = "undefined" THEN <<Menu_CommandPalette>> ELSE command.menu.items

MenuIdOf == [m \in Menus |-> IF m = Menu_CommandPalette THEN "MenuId.CommandPalette"
                             ELSE "MenuId.StatusBarWindowIndicatorMenu"]

\* C6 as stated: every command is registered, and a command gets a menu item if and only
\* if it has a label (one per listed menu, one in the command palette without command.menu).
C6_MenuItemIffLabel ==
    (created /\ createArgs.isArray) =>
        \A id \in CommandIds :
            /\ Occurrences(commandsRegistry, id) = Cardinality(CommandsWith(id))
            /\ \A i \in CommandsWith(id) :
                  Cardinality(CommandsWith(id)) = 1 =>
                      LET c == createArgs.commands[i]
                      IN /\ (ItemsOf(id) # {}) <=> (c.label # Undefined)
                         /\ c.label # Undefined =>
                               \A m \in Menus :
                                   Cardinality(ItemsOfIn(id, MenuIdOf[m]))
                                       = Occurrences(ListedMenus(c), m)

\* C6 amended: every command of options.commands is registered; a command with a non-empty
\* label gets one menu item per entry of command.menu (none for an empty array), or exactly
\* one item in the command palette when command.menu is not given; a command without a
\* label, or with an empty one, gets no menu item.
C6_MenuItemsPerLabelledCommand ==
    (created /\ createArgs.isArray) =>
        \A id \in CommandIds :
            /\ Occurrences(commandsRegistry, id) = Cardinality(CommandsWith(id))
            /\ \A m \in Menus :
                  Cardinality(ItemsOfIn(id, MenuIdOf[m])) =
                      Cardinality(UNION {
                          LET c == createArgs.commands[i]
                          IN IF c.label # Undefined /\ c.label # ""
                             THEN {<<i, k>> : k \in 1..Occurrences(ListedMenus(c), m)}
                             ELSE {}
                          : i \in CommandsWith(id)})
            /\ \A i \in ItemsOf(id) :
                  \E j \in CommandsWith(id) : menuRegistry[i].title = createArgs.commands[j].label

\* created with a labelled command listing two menus next to an unlabelled command
C6_Witness ==
    /\ created
    /\ createArgs.isArray
    /\ \E i, j \in DOMAIN createArgs.commands :
          /\ createArgs.commands[i].id # createArgs.commands[j].id
          /\ createArgs.commands[i].label = "Label"
          /\ Len(createArgs.commands[i].menu.items) = 2
          /\ createArgs.commands[j].label = Undefined
          /\ Cardinality(ItemsOf(createArgs.commands[i].id)) = 2
          /\ ItemsOf(createArgs.commands[j].id) = {}
-----------------------------------------------------------------------------
(* Properties of the search handlers *)

\* the positions of the calls of `l` on `target` with a method of `ops`
CallsTo(l, target, ops) == {i \in DOMAIN l : l[i].target = target /\ l[i].op \in ops}

\* a handler runs in this step
HandlerRuns == pc = "idle" /\ pc' # "idle"

GuardedHandlers ==
    {"toggleCaseSensitiveCommand", "toggleWholeWordCommand", "toggleRegexCommand",
     "togglePreserveCaseCommand", "expandAll", "clearSearchResults", "cancelSearch",
     "refreshSearch", "collapseDeepestExpandedLevel", "CloseReplaceAction", "copyAllCommand"}

\* C4: with no active search view the toggle commands, expandAll, clearSearchResults,
\* cancelSearch, refreshSearch, collapseDeepestExpandedLevel, CloseReplaceAction and
\* copyAllCommand complete without error and call neither the tree, nor the search-result
\* model, nor the clipboard
C4_NoViewNoCall ==
    [][(HandlerRuns /\ ~searchViewActive /\ lastCmd'.name \in GuardedHandlers) =>
          /\ lastCmd'.outcome = "completed"
          /\ \A i \in DOMAIN log' :
                log'[i].target \notin {"viewer", "searchResult", "clipboardService", "searchView"}
          /\ UNCHANGED treeVars]_vars

C4_Witness ==
    /\ pc = "done"
    /\ lastCmd.name = "copyAllCommand"
    /\ ~searchViewActive
    /\ nodes \cap Matches # {}

\* the step is one of this code: a handler, or work a handler left behind
CodeStep == pc' # pc

ModelCalls(l) == CallsTo(l, "searchResult", {"batchRemove", "batchReplace"})

\* the methods of the search view that change its results
ViewCallsChangingResults(l) ==
    CallsTo(l, "searchView",
            {"clearSearchResults", "triggerQueryChange", "toggleCaseSensitive", "toggleWholeWords",
             "toggleRegex", "togglePreserveCase", "setSearchParameters"})

OperatingHandlers ==
    {"RemoveAction", "ReplaceAction", "ReplaceAllAction", "ReplaceAllInFolderAction"}

\* the selection without its null entries
NonNullSelection == {selection[i] : i \in DOMAIN selection} \ {Null}

IsSortedBy(seq, order) ==
    \A i, j \in DOMAIN seq : i < j => IndexIn(order, seq[i]) < IndexIn(order, seq[j])

\* C7: getElementsToOperateOnInfo returns the non-null selection, sorted by the sort order,
\* only when the selection has more than one element and contains the current element, and
\* [currElement] otherwise; mustReselect is true iff the current element is in the selection
C7_ElementsToOperateOn ==
    [][(HandlerRuns /\ lastCmd'.name \in OperatingHandlers) =>
          LET currElement == lastCmd'.arg
              elements == lastCmd'.elements
              whole == Cardinality(NonNullSelection) > 1 /\ currElement \in NonNullSelection
          IN /\ lastCmd'.mustReselect = (currElement \in NonNullSelection)
             /\ whole => /\ {elements[i] : i \in DOMAIN elements} = NonNullSelection
                         /\ Len(elements) = Cardinality(NonNullSelection)
                         /\ IsSortedBy(elements, DisplayOrder(sortOrder))
             /\ ~whole => elements = <<currElement>>]_vars

C7_Witness ==
    /\ pc = "replacing"
    /\ lastCmd.name = "ReplaceAllAction"
    /\ lastCmd.mustReselect
    /\ Len(lastCmd.elements) = 2
    /\ Filter(selection, Elements) # lastCmd.elements

AfterHandler(names) == pc \in {"done", "replacing"} /\ lastCmd.name \in names

Navigations(l) == CallsTo(l, "viewer", {"navigate"})

\* the model is called once, with all the elements to operate on
ModelCalledOnce ==
    /\ Cardinality(ModelCalls(log)) = 1
    /\ \A i \in ModelCalls(log) : log[i].args = lastCmd.elements

\* C8 as stated: RemoveAction.run and performReplace look for the element to focus before
\* they call the model, and call the model exactly once with all the elements
C8_NavigateThenModelCall ==
    AfterHandler(OperatingHandlers) =>
       /\ ModelCalledOnce
       /\ \A n \in Navigations(log), m \in ModelCalls(log) : n < m

\* C8 amended: RemoveAction.run looks for the element to focus before it calls batchRemove;
\* performReplace calls batchReplace first and looks for the element to focus afterwards;
\* with an active search view the model is called exactly once per run with all the
\* elements to operate on, and without one it is not called
C8_ModelCallOrder ==
    AfterHandler(OperatingHandlers) =>
       /\ IF searchViewActive THEN ModelCalledOnce ELSE ModelCalls(log) = {}
       /\ \A n \in Navigations(log), m \in ModelCalls(log) :
             IF lastCmd.name = "RemoveAction" THEN n < m ELSE m < n

C8_Witness ==
    /\ AfterHandler({"ReplaceAction"})
    /\ Len(lastCmd.elements) = 2
    /\ Navigations(log) # {}
    /\ ModelCalls(log) # {}

RemovesUnselected ==
    HandlerRuns /\ lastCmd'.name = "RemoveAction" /\ ~lastCmd'.mustReselect

\* C9 as stated: RemoveAction on an element that is not in the selection leaves focus and
\* selection of the tree unchanged and passes exactly that element to batchRemove
C9_UnselectedRemoveKeepsSelection ==
    [][RemovesUnselected =>
          /\ UNCHANGED <<focus, selection>>
          /\ \E i \in DOMAIN log' : /\ log'[i].op = "batchRemove"
                                    /\ log'[i].args = <<lastCmd'.arg>>]_vars

\* C9 amended: RemoveAction on an element that is not in the selection makes no reveal,
\* setFocus or setSelection call, so that focus and selection keep their entries, except
\* those the removal deletes from the tree; with an active search view it passes exactly
\* that element to batchRemove, once; without one it calls no batchRemove and the tree stays
\* as it was
C9_UnselectedRemoveSetsNoSelection ==
    [][RemovesUnselected =>
          /\ CallsTo(log', "viewer", {"reveal", "setFocus", "setSelection"}) = {}
          /\ focus' = Filter(focus, nodes' \cup {Null})
          /\ selection' = Filter(selection, nodes' \cup {Null})
          /\ \A i \in ModelCalls(log') : /\ log'[i].op = "batchRemove"
                                         /\ log'[i].args = <<lastCmd'.arg>>
          /\ IF searchViewActive
             THEN Cardinality(ModelCalls(log')) = 1
             ELSE ModelCalls(log') = {} /\ UNCHANGED treeVars]_vars

C9_Witness ==
    /\ AfterHandler({"RemoveAction"})
    /\ ~lastCmd.mustReselect
    /\ searchViewActive
    /\ selection # <<>>
    /\ lastCmd.arg \notin nodes

\* C10: whenever RemoveAction.run sets focus and selection, it sets both to the same single
\* element, which is neither an element being removed nor a descendant of one
C10_FocusOutsideRemoved ==
    AfterHandler({"RemoveAction"}) =>
       LET setsFocus == CallsTo(log, "viewer", {"setFocus"})
           setsSelection == CallsTo(log, "viewer", {"setSelection"})
           removed == {lastCmd.elements[i] : i \in DOMAIN lastCmd.elements}
       IN /\ Cardinality(setsFocus) <= 1
          /\ Cardinality(setsSelection) = Cardinality(setsFocus)
          /\ \A f \in setsFocus, g \in setsSelection :
                /\ log[f].args = log[g].args
                /\ Len(log[f].args) = 1
                /\ log[f].args[1] \in Elements \ removed
                /\ Ancestors(log[f].args[1]) \cap removed = {}

C10_Witness ==
    /\ AfterHandler({"RemoveAction"})
    /\ Len(lastCmd.elements) = 2
    /\ CallsTo(log, "viewer", {"setFocus"}) # {}
    /\ CallsTo(log, "viewer", {"navigate"}) \ {1} # {}

RemovesSelected ==
    HandlerRuns /\ lastCmd'.name = "RemoveAction" /\ lastCmd'.mustReselect

\* the rows that are neither in `removed` nor below an element of it
SurvivingRows(rows, removed) == {r \in rows : r \notin removed /\ Ancestors(r) \cap removed = {}}

\* the elements the handler has set both focus and selection to
Refocused(l) ==
    {e \in Elements : /\ \E i \in CallsTo(l, "viewer", {"setFocus"}) : l[i].args = <<e>>
                      /\ \E i \in CallsTo(l, "viewer", {"setSelection"}) : l[i].args = <<e>>}

\* the rows that the removal of `removed` cannot touch: not removed, not below a removed
\* element, and not a file or folder that holds one
UntouchedRows(rows, removed) ==
    {r \in SurvivingRows(rows, removed) : \A e \in removed : r \notin Ancestors(e)}

\* C11: after RemoveAction.run on an element of the selection, if a visible node is neither
\* removed nor below a removed node, focus and selection have been moved to such a node.
\* Stated for the visible nodes that are also not above a removed node, which stay in the
\* tree whatever the removal empties.
C11_FocusMovesToSurvivor ==
    [][RemovesSelected =>
          LET removed == {lastCmd'.elements[i] : i \in DOMAIN lastCmd'.elements}
          IN UntouchedRows(Rows, removed) # {} =>
                \E e \in Refocused(log') : e \in SurvivingRows(Elements, removed)]_vars

(***************************************************************************)
(* C12: the copy commands                                                   *)
(***************************************************************************)
CopyCommands == {"copyPathCommand", "copyMatchCommand", "copyAllCommand"}

ClipboardWrites(l) == CallsTo(l, "clipboardService", {"writeText"})

\* C12: a copy command writes to the clipboard at most once per invocation; copyPathCommand
\* without an argument writes nothing unless the first selected row is a file match or a
\* folder match; copyMatchCommand without an argument writes nothing when no row is selected,
\* and never writes an empty text; copyAllCommand writes nothing without the search view
C12_CopyWritesAtMostOnce ==
    [][(HandlerRuns /\ lastCmd'.name \in CopyCommands) =>
          /\ Cardinality(ClipboardWrites(log')) <= 1
          /\ (/\ lastCmd'.name = "copyPathCommand"
              /\ lastCmd'.arg = Undefined
              /\ getSelectedRow \notin Files \cup Folders) => ClipboardWrites(log') = {}
          /\ (/\ lastCmd'.name = "copyMatchCommand"
              /\ lastCmd'.arg = Undefined
              /\ getSelectedRow \in {Undefined, Null}) => ClipboardWrites(log') = {}
          /\ lastCmd'.name = "copyMatchCommand" =>
                 \A i \in ClipboardWrites(log') : log'[i].args # <<>>
          /\ (lastCmd'.name = "copyAllCommand" /\ ~searchViewActive) =>
                 ClipboardWrites(log') = {}]_vars

\* copyMatchCommand has run on a folder match whose text is empty and has written nothing
C12_Witness ==
    /\ AfterHandler({"copyMatchCommand"})
    /\ IsFolderMatch(lastCmd.arg)
    /\ folderMatchToString(lastCmd.arg).text = <<>>
    /\ log = <<>>

====
